---- MODULE Spec2Model ----
(***************************************************************************)
(* HandlebarsNodeVisitor of glimmer-syntax                                 *)
(* (packages/glimmer-syntax/lib/parser/handlebars-node-visitors.ts).       *)
(*                                                                         *)
(* The visitor walks a Handlebars AST depth first.  The recursion of       *)
(* Program -> acceptNode -> BlockStatement -> Program is modelled with an  *)
(* explicit call stack (frames); the document is produced statement by     *)
(* statement while it is walked, which is the same as fixing it up front   *)
(* because the visitor reads the statements strictly in document order.    *)
(***************************************************************************)
EXTENDS Integers, Sequences, FiniteSets, TLC

VARIABLES
  pc,                \* "start" | "running" | "done": position of the parse
  parentStack,       \* this.parentStack: ids of the parent-capable nodes
  nodes,             \* the AST nodes built so far: id -> node
  children,          \* id of a Program node -> the ids appended to it
  elementStack,      \* this.elementStack: the open elements
  state,             \* this.tokenizer.state
  line,              \* this.tokenizer.line
  currentNode,       \* this.currentNode: the tag or comment being tokenized
  currentAttribute,  \* this.currentAttribute
  frames,            \* the calls of Program and BlockStatement in progress
  error,             \* the exception that ended the parse, if any
  nextId,            \* next fresh object identity
  steps,             \* statements visited so far
  last,              \* what the most recent handler call did
  pathArg,           \* argument of the most recent PathExpression call
  pathResult,        \* its outcome
  column,            \* this.tokenizer.column
  contentArg,        \* the content statement whose position is being set
  callArg,           \* argument of the most recent acceptCall call
  callResult,        \* its outcome
  callAgain          \* the outcome of acceptCall on that outcome

\* the arguments and outcomes of the visits made on their own
callVars == <<pathArg, pathResult, contentArg, callArg, callResult, callAgain>>

vars == <<pc, parentStack, nodes, children, elementStack, state, line,
          currentNode, currentAttribute, frames, error, nextId, steps, last,
          column, callVars>>

visitorVars == <<pc, parentStack, nodes, children, elementStack, state, line,
                 currentNode, currentAttribute, frames, error, nextId, steps,
                 last, column>>

-----------------------------------------------------------------------------
(* Bounds of the model *)

MaxSteps == 3      \* statements visited in one parse
MaxDepth == 2      \* Program calls in progress at once
MaxLine == 2       \* source lines
MaxSegs == 3       \* segments of a path
MaxText == 3       \* characters of the text of a content span
MaxColumn == 1     \* source columns
MaxParams == 2     \* params of a call
MaxPairs == 2      \* pairs of a hash

-----------------------------------------------------------------------------
(* Strings are sequences of one-character strings. *)

Min(a, b) == IF a < b THEN a ELSE b

\* String.prototype.indexOf(c): 0-based index of the first c, or -1
IndexOf(s, c) ==
  IF \E i \in 1..Len(s) : s[i] = c
  THEN (CHOOSE i \in 1..Len(s) : s[i] = c /\ \A j \in 1..(i - 1) : s[j] # c) - 1
  ELSE -1

\* String.prototype.slice(from, to) for 0 <= from <= to
Slice(s, from, to) == SubSeq(s, from + 1, Min(to, Len(s)))

\* Array.prototype.join(sep) on an array of strings
RECURSIVE Join(_, _)
Join(parts, sep) ==
  IF Len(parts) = 0 THEN <<>>
  ELSE IF Len(parts) = 1 THEN parts[1]
  ELSE parts[1] \o sep \o Join(Tail(parts), sep)

\* JavaScript values of the `parts` field: an array of strings or undefined
Undefined == [tag |-> "undefined", v |-> <<>>]
Array(v) == [tag |-> "array", v |-> v]

-----------------------------------------------------------------------------
(* Errors *)

NoError == [kind |-> "none", tag |-> "", text |-> <<>>, line |-> 0]
PathError(kind, path) ==
  [kind |-> kind, tag |-> "", text |-> path.original, line |-> path.loc]
BlockError == [kind |-> "BlockOutsideElement", tag |-> "", text |-> <<>>, line |-> 0]
UnclosedError(el) ==
  [kind |-> "UnclosedElement", tag |-> el.tag, text |-> <<>>, line |-> el.line]
\* reading a property of null
TypeError == [kind |-> "TypeError", tag |-> "", text |-> <<>>, line |-> 0]

-----------------------------------------------------------------------------
(* PathExpression (lines 149-168) *)

\* the rejections with the test for '.' ahead of the test for '../'
PathRejectionMixedFirst(original) ==
  IF IndexOf(original, "/") # -1
  THEN IF Slice(original, 0, 2) = <<".", "/">> THEN "DotSlashPath"
       ELSE IF IndexOf(original, ".") # -1 THEN "MixedPath"
       ELSE IF Slice(original, 0, 3) = <<".", ".", "/">> THEN "DotDotSlashPath"
       ELSE "none"
  ELSE "none"

\* the three rejections, in the order of the code
PathRejection(original) ==
  IF IndexOf(original, "/") # -1
  THEN IF Slice(original, 0, 2) = <<".", "/">> THEN "DotSlashPath"
       ELSE IF Slice(original, 0, 3) = <<".", ".", "/">> THEN "DotDotSlashPath"
       ELSE IF IndexOf(original, ".") # -1 THEN "MixedPath"
       ELSE "none"
  ELSE "none"

\* The `let parts` of line 164 declares a new variable in the block of the
\* `if`; the `parts` of line 151, which line 167 returns, is never assigned.
\* path.parts.join('/') is still evaluated, and throws when path.parts is
\* undefined.
PathExpression(path) ==
  LET original == path.original
      rejection == PathRejection(original)
      slash == IndexOf(original, "/") # -1
      parts == Undefined
  IN IF rejection # "none"
     THEN [ok |-> FALSE, error |-> PathError(rejection, path), value |-> path]
     ELSE IF slash /\ path.parts.tag = "undefined"
     THEN [ok |-> FALSE, error |-> TypeError, value |-> path]
     ELSE [ok |-> TRUE, error |-> NoError,
           value |-> [type |-> "PathExpression", data |-> path.data,
                      original |-> original, parts |-> parts, depth |-> 0,
                      loc |-> path.loc]]

-----------------------------------------------------------------------------
(* Raw paths, as the Handlebars parser hands them to the visitor: the text  *)
(* is the segments with their separators behind an optional './' or '../', *)
(* `parts` holds the segments and `depth` counts the '..' of the text.     *)

Segments == {<<"a">>, <<"b">>}
Separators == {<<".">>, <<"/">>}
Prefixes == {<<>>, <<".", "/">>, <<".", ".", "/">>}
Lines == 1..MaxLine

RECURSIVE Interleave(_, _)
Interleave(segs, seps) ==
  IF Len(segs) = 1 THEN segs[1]
  ELSE segs[1] \o seps[1] \o Interleave(Tail(segs), Tail(seps))

RawPath(prefix, segs, seps, data, loc) ==
  [type |-> "PathExpression", data |-> data,
   original |-> prefix \o Interleave(segs, seps), parts |-> Array(segs),
   depth |-> IF prefix = <<".", ".", "/">> THEN 1 ELSE 0, loc |-> loc]

\* the path '..': no segment, depth 1
ParentPath(data, loc) ==
  [type |-> "PathExpression", data |-> data, original |-> <<".", ".">>,
   parts |-> Array(<<>>), depth |-> 1, loc |-> loc]

RawPaths ==
  { RawPath(prefix, segs, seps, data, loc) :
      prefix \in Prefixes,
      <<segs, seps>> \in UNION { [1..n -> Segments] \X [1..(n - 1) -> Separators] :
                                   n \in 1..MaxSegs },
      data \in BOOLEAN, loc \in Lines }
  \cup { ParentPath(data, loc) : data \in BOOLEAN, loc \in Lines }

-----------------------------------------------------------------------------
(* Stack of glimmer-util: `current` is the top, or null when empty *)

NullId == 0
NullElement == [id |-> 0, tag |-> "", line |-> 0]

Current(stack, null) == IF Len(stack) = 0 THEN null ELSE stack[Len(stack)]
Pop(stack) == SubSeq(stack, 1, Len(stack) - 1)

-----------------------------------------------------------------------------
(* The tokenizer and its event handlers (TokenizerEventHandlers), as far as *)
(* the visitor drives and observes them.                                    *)

TokenizerStates ==
  {"beforeData", "data", "tagOpen", "comment", "tagName", "beforeAttributeName",
   "attributeName", "afterAttributeName", "beforeAttributeValue",
   "attributeValueDoubleQuoted", "attributeValueSingleQuoted",
   "attributeValueUnquoted", "afterAttributeValueQuoted"}

Tags == {"div", "p"}

NoNode == [type |-> "none", tag |-> "", line |-> 0, modifiers |-> <<>>,
           attributes |-> <<>>, chars |-> <<>>]
NoAttribute == [open |-> FALSE, parts |-> <<>>, isQuoted |-> FALSE]

\* an attribute part that is literal text (the mustaches are node ids >= 1)
TextPart == 0

beginStartTag(e, tag) ==
  [e EXCEPT !.currentNode = [NoNode EXCEPT !.type = "tag", !.tag = tag,
                                           !.line = e.line]]
beginAttribute(e) ==
  [e EXCEPT !.currentAttribute = [NoAttribute EXCEPT !.open = TRUE]]
beginAttributeValue(e, isQuoted) ==
  [e EXCEPT !.currentAttribute.isQuoted = isQuoted]
finishAttributeValue(e) ==
  [e EXCEPT !.currentNode.attributes =
              Append(@, [parts |-> e.currentAttribute.parts,
                         isQuoted |-> e.currentAttribute.isQuoted]),
            !.currentAttribute = NoAttribute]
appendToAttributeValue(e, part) ==
  [e EXCEPT !.currentAttribute.parts = Append(@, part)]
appendModifier(e, mustache) ==
  [e EXCEPT !.currentNode.modifiers = Append(@, mustache)]
finishStartTag(e) ==
  [e EXCEPT !.elementStack = Append(@, [id |-> e.nextId, tag |-> e.currentNode.tag,
                                        line |-> e.currentNode.line]),
            !.nextId = @ + 1, !.currentNode = NoNode]
finishEndTag(e) == [e EXCEPT !.elementStack = Pop(@)]
beginComment(e) == [e EXCEPT !.currentNode = [NoNode EXCEPT !.type = "comment"]]
appendToCommentData(e, chars) == [e EXCEPT !.currentNode.chars = @ \o chars]
finishComment(e) == [e EXCEPT !.currentNode = NoNode]
\* currentParent (lines 24-26)
currentParent(e) == Current(e.parentStack, NullId)

\* this.appendChild(node): currentParent().appendChild(node)
appendChild(e, node) ==
  LET parent == currentParent(e)
  IN IF parent = NullId THEN [e EXCEPT !.ok = FALSE]
     ELSE [e EXCEPT !.children[parent] = Append(@, node)]

To(e, s) == [e EXCEPT !.state = s]
Reject(e) == [e EXCEPT !.ok = FALSE]

\* One piece of markup text fed to the tokenizer in state e.state
TokenizeChunk(e, c) ==
  LET s == e.state
      inData == s \in {"beforeData", "data"}
      inValue == s \in {"attributeValueDoubleQuoted", "attributeValueSingleQuoted",
                        "attributeValueUnquoted"}
  IN CASE c = "text" ->
            IF inData THEN To(e, "data")
            ELSE IF s = "comment" THEN appendToCommentData(e, <<"c">>)
            ELSE IF inValue THEN appendToAttributeValue(e, TextPart)
            ELSE IF s = "beforeAttributeValue"
            THEN To(appendToAttributeValue(beginAttributeValue(e, FALSE), TextPart),
                    "attributeValueUnquoted")
            ELSE Reject(e)
       [] c = "<" -> IF inData THEN To(e, "tagOpen") ELSE Reject(e)
       [] c \in {"<div", "<p"} ->
            IF inData
            THEN To(beginStartTag(e, IF c = "<div" THEN "div" ELSE "p"), "tagName")
            ELSE Reject(e)
       [] c = " " ->
            IF s \in {"tagName", "afterAttributeValueQuoted"}
            THEN To(e, "beforeAttributeName")
            ELSE IF s = "attributeName" THEN To(e, "afterAttributeName")
            ELSE IF s = "attributeValueUnquoted"
            THEN To(finishAttributeValue(e), "beforeAttributeName")
            ELSE Reject(e)
       [] c = "name" ->
            IF s = "beforeAttributeName" THEN To(beginAttribute(e), "attributeName")
            ELSE IF s = "afterAttributeName"
            THEN To(beginAttribute(finishAttributeValue(beginAttributeValue(e, FALSE))),
                    "attributeName")
            ELSE Reject(e)
       [] c = "=" ->
            IF s \in {"attributeName", "afterAttributeName"}
            THEN To(e, "beforeAttributeValue")
            ELSE Reject(e)
       [] c = "dq" ->
            IF s = "beforeAttributeValue"
            THEN To(beginAttributeValue(e, TRUE), "attributeValueDoubleQuoted")
            ELSE IF s = "attributeValueDoubleQuoted"
            THEN To(finishAttributeValue(e), "afterAttributeValueQuoted")
            ELSE Reject(e)
       [] c = "sq" ->
            IF s = "beforeAttributeValue"
            THEN To(beginAttributeValue(e, TRUE), "attributeValueSingleQuoted")
            ELSE IF s = "attributeValueSingleQuoted"
            THEN To(finishAttributeValue(e), "afterAttributeValueQuoted")
            ELSE Reject(e)
       [] c = ">" ->
            IF s \in {"tagName", "beforeAttributeName", "afterAttributeValueQuoted"}
            THEN To(finishStartTag(e), "beforeData")
            ELSE IF s \in {"attributeName", "afterAttributeName"}
            THEN To(finishStartTag(finishAttributeValue(beginAttributeValue(e, FALSE))),
                    "beforeData")
            ELSE IF s = "attributeValueUnquoted"
            THEN To(finishStartTag(finishAttributeValue(e)), "beforeData")
            ELSE Reject(e)
       [] c = "</>" ->
            IF inData /\ Len(e.elementStack) > 0
            THEN To(finishEndTag(e), "beforeData")
            ELSE Reject(e)
       [] c = "<!--" -> IF inData THEN To(beginComment(e), "comment") ELSE Reject(e)
       [] c = "-->" ->
            IF s = "comment" THEN To(finishComment(e), "beforeData") ELSE Reject(e)
       [] OTHER -> Reject(e)

\* tokenizer.tokenizePart(value): the pieces of the text, in order
RECURSIVE tokenizePart(_, _)
tokenizePart(e, value) ==
  IF Len(value) = 0 \/ ~e.ok THEN e
  ELSE tokenizePart(TokenizeChunk(e, Head(value)), Tail(value))

\* The texts of the content statements: each single piece, and the pieces
\* that take the tokenizer from plain content into a tag in one statement.
OpenTag == <<"<div", " ", "name", "=", "dq">>
ContentValues ==
  { <<c>> : c \in {"text", "<", "<div", "<p", " ", "name", "=", "dq", "sq", ">",
                   "</>", "<!--", "-->"} }
  \cup { SubSeq(OpenTag, 1, n) : n \in 2..Len(OpenTag) }
  \cup { <<"<div", ">">>, <<"<p", ">">>, <<"<div", " ", "name", "=", "sq">>,
         <<"dq", ">">>, <<"<div", " ", "name", " ">>, OpenTag \o <<"dq">>,
         <<"<div", " ", "name", "=", "text">>, <<"<div", ">", "<p", ">">>,
         <<"</>", "<p", ">">> }

-----------------------------------------------------------------------------
(* The visitor's view of the mutable objects, and back *)

Env ==
  [ok |-> TRUE, state |-> state, line |-> line, currentNode |-> currentNode,
   currentAttribute |-> currentAttribute, elementStack |-> elementStack,
   nextId |-> nextId, parentStack |-> parentStack, children |-> children]

Store(e) ==
  /\ state' = e.state
  /\ line' = e.line
  /\ currentNode' = e.currentNode
  /\ currentAttribute' = e.currentAttribute
  /\ elementStack' = e.elementStack
  /\ nextId' = e.nextId
  /\ parentStack' = e.parentStack
  /\ children' = e.children

\* at most one node per statement, two scopes per block, and the root
MaxNodes == 3 * MaxSteps + 1
NoChildren == [id \in 1..MaxNodes |-> <<>>]

\* what a claim about one call compares the state after the call with
Snapshot ==
  [state |-> state, currentNode |-> currentNode,
   currentAttribute |-> currentAttribute, elementStack |-> elementStack,
   parentStack |-> parentStack, children |-> children, built |-> Len(nodes)]

NoSnapshot ==
  [state |-> "beforeData", currentNode |-> NoNode, currentAttribute |-> NoAttribute,
   elementStack |-> <<>>, parentStack |-> <<>>, children |-> NoChildren,
   built |-> 0]

\* `count` is the number of statements of the body, for a Program that returns
Did(op, outcome, node, calls, pre, path) ==
  [op |-> op, outcome |-> outcome, node |-> node, calls |-> calls, pre |-> pre,
   path |-> path, count |-> 0]

-----------------------------------------------------------------------------
(* Nodes and calls *)

ProgramNode == [type |-> "Program", program |-> NullId, inverse |-> NullId]
BlockNode(program, inverse) ==
  [type |-> "Block", program |-> program, inverse |-> inverse]
LeafNode(type) == [type |-> type, program |-> NullId, inverse |-> NullId]

\* the paths of the calls of a document: one that is accepted and one that
\* is rejected
DocPaths ==
  { RawPath(<<>>, <<(<<"a">>)>>, <<>>, FALSE, 1),
    RawPath(<<".", "/">>, <<(<<"a">>)>>, <<>>, FALSE, 1) }

\* the call of a statement that has none (content, comment)
NoPath ==
  [type |-> "PathExpression", data |-> FALSE, original |-> <<>>,
   parts |-> Array(<<>>), depth |-> 0, loc |-> 0]

\* acceptCall (lines 199-216), for a call without params and hash: the path
\* is normalized first, and its error is the call's error
acceptCall(path) == PathExpression(path)

\* sourceForMustache of a call without params and hash: its path text
sourceForMustache(path) == path.original

-----------------------------------------------------------------------------
(* Call normalization with arguments (lines 144-147, 170-216) *)

\* a call without a hash has none (line 206), and the location of the hash
\* made for it is null (line 209)
NullLoc == 0
NoHash == [type |-> "undefined", pairs |-> <<>>, loc |-> NullLoc]
EmptyHash == [type |-> "Hash", pairs |-> <<>>, loc |-> NullLoc]

Hash(pairs, loc) == [type |-> "Hash", pairs |-> pairs, loc |-> loc]
HashPair(key, value) == [type |-> "HashPair", key |-> key, value |-> value]
Literal(type) == [type |-> type]
Call(type, path, params, hash) ==
  [type |-> type, path |-> path, params |-> params, hash |-> hash]

\* hbs.sexpr: the sub-expression node built from a normalized call
sexpr(call) == [call EXCEPT !.type = "Sexpr"]

Returns(value) == [ok |-> TRUE, error |-> NoError, value |-> value]

\* Array.prototype.map with a visitor that may throw: the first failure, in
\* the order of the elements, is the failure of the whole
Mapped(results) ==
  LET failed == {i \in 1..Len(results) : ~results[i].ok}
  IN IF failed = {}
     THEN Returns([i \in 1..Len(results) |-> results[i].value])
     ELSE results[CHOOSE i \in failed : \A j \in failed : i <= j]

RECURSIVE acceptParam(_)
RECURSIVE acceptCallNode(_)

\* lines 144-147
SubExpression(node) ==
  LET call == acceptCallNode(node)
  IN IF call.ok THEN Returns(sexpr(call.value)) ELSE call

\* lines 170-177
HashVisit(hash) ==
  LET pairs == Mapped([i \in 1..Len(hash.pairs) |->
                         LET value == acceptParam(hash.pairs[i].value)
                         IN IF value.ok
                            THEN Returns([hash.pairs[i] EXCEPT !.value = value.value])
                            ELSE value])
  IN IF pairs.ok THEN Returns([hash EXCEPT !.pairs = pairs.value]) ELSE pairs

\* lines 179-197: StringLiteral, BooleanLiteral, NumberLiteral,
\* UndefinedLiteral and NullLiteral return the literal
LiteralVisit(literal) == Returns(literal)

\* acceptParam: the visitor of the type of the node
acceptParam(node) ==
  CASE node.type = "PathExpression" -> PathExpression(node)
    [] node.type = "SubExpression" -> SubExpression(node)
    [] node.type = "Hash" -> HashVisit(node)
    [] OTHER -> LiteralVisit(node)

\* lines 199-216 with the arguments visited last to first
acceptCallNodeReversed(node) ==
  LET path == PathExpression(node.path)
      n == Len(node.params)
      params == Mapped([i \in 1..n |-> acceptParam(node.params[n + 1 - i])])
      hash == IF node.hash # NoHash THEN acceptParam(node.hash) ELSE Returns(EmptyHash)
  IN IF ~path.ok THEN path
     ELSE IF ~params.ok THEN params
     ELSE IF ~hash.ok THEN hash
     ELSE Returns([node EXCEPT !.path = path.value, !.params = params.value,
                               !.hash = hash.value])

\* lines 199-216: the path, then the params in order, then the hash
acceptCallNode(node) ==
  LET path == PathExpression(node.path)
      params == Mapped([i \in 1..Len(node.params) |-> acceptParam(node.params[i])])
      hash == IF node.hash # NoHash THEN acceptParam(node.hash) ELSE Returns(EmptyHash)
  IN IF ~path.ok THEN path
     ELSE IF ~params.ok THEN params
     ELSE IF ~hash.ok THEN hash
     ELSE Returns([node EXCEPT !.path = path.value, !.params = params.value,
                               !.hash = hash.value])

NoCall == Call("MustacheStatement", NoPath, <<>>, NoHash)
NoCallResult == [ok |-> FALSE, error |-> NoError, value |-> NoCall]

-----------------------------------------------------------------------------
(* Frames: the calls in progress *)

ProgramFrame(node, topNode, entry) ==
  [kind |-> "Program", node |-> node, topNode |-> topNode, stage |-> "body",
   program |-> NullId, inverse |-> NullId, hasInverse |-> FALSE, count |-> 0,
   entry |-> entry]

BlockFrame(hasProgram, hasInverse, entry) ==
  [kind |-> "Block", node |-> NullId, topNode |-> NullElement,
   stage |-> IF hasProgram THEN "program"
             ELSE IF hasInverse THEN "inverse" ELSE "append",
   program |-> NullId, inverse |-> NullId, hasInverse |-> hasInverse, count |-> 0,
   entry |-> entry]

Top(fs) == fs[Len(fs)]

ProgramDepth(fs) == Cardinality({i \in 1..Len(fs) : fs[i].kind = "Program"})

\* a Program call returns `node` to its caller: the parse, or lines 62-63
Returned(fs, node) ==
  IF Len(fs) = 0 THEN fs
  ELSE LET f == Top(fs)
       IN IF f.stage = "program"
          THEN [fs EXCEPT ![Len(fs)].program = node,
                          ![Len(fs)].stage = IF f.hasInverse THEN "inverse"
                                             ELSE "append"]
          ELSE [fs EXCEPT ![Len(fs)].inverse = node, ![Len(fs)].stage = "append"]

\* a statement of the body on top has been dispatched (line 38)
Counted(fs) == [fs EXCEPT ![Len(fs)].count = @ + 1]

InBody ==
  /\ pc = "running"
  /\ error = NoError
  /\ Len(frames) > 0
  /\ Top(frames).kind = "Program"
  /\ steps < MaxSteps

-----------------------------------------------------------------------------
(* Program (lines 28-47) *)

\* lines 29-38: an empty body returns at once; otherwise the scope is pushed
\* and the top of the element stack is remembered
Program(isEmpty) ==
  /\ error = NoError
  /\ \/ pc = "start" /\ frames = <<>>
     \/ /\ pc = "running" /\ Len(frames) > 0
        /\ Top(frames).kind = "Block"
        /\ Top(frames).stage \in {"program", "inverse"}
  /\ isEmpty \/ (ProgramDepth(frames) < MaxDepth /\ steps < MaxSteps)
  /\ LET node == Len(nodes) + 1
     IN /\ nodes' = Append(nodes, ProgramNode)
        /\ IF isEmpty
           THEN /\ parentStack' = parentStack
                /\ frames' = Returned(frames, node)
                /\ pc' = IF Len(frames) = 0 THEN "done" ELSE "running"
                /\ last' = Did("Program", "return", node, <<>>, Snapshot, NoPath)
           ELSE /\ parentStack' = Append(parentStack, node)
                /\ frames' = Append(frames,
                                    ProgramFrame(node, Current(elementStack, NullElement),
                                                 Snapshot))
                /\ pc' = "running"
                /\ last' = Did("Program", "call", node, <<>>, Snapshot, NoPath)
  /\ UNCHANGED <<children, elementStack, state, line, currentNode, currentAttribute,
                 error, nextId, steps, column, callVars>>

\* lines 40-46, after the last statement of the body: the balance check and
\* the return.  The parent stack is not touched.
ProgramReturn ==
  /\ pc = "running"
  /\ error = NoError
  /\ Len(frames) > 0
  /\ Top(frames).kind = "Program"
  /\ Top(frames).count > 0
  /\ LET f == Top(frames)
         newTopNode == Current(elementStack, NullElement)
         rest == Pop(frames)
     IN IF f.topNode # newTopNode
        THEN /\ error' = IF newTopNode = NullElement THEN TypeError
                         ELSE UnclosedError(newTopNode)
             /\ last' = Did("Program", "throw", f.node, <<>>, f.entry, NoPath)
             /\ UNCHANGED <<frames, pc>>
        ELSE /\ frames' = Returned(rest, f.node)
             /\ pc' = IF Len(rest) = 0 THEN "done" ELSE "running"
             /\ last' = [Did("Program", "return", f.node, <<>>, f.entry, NoPath)
                            EXCEPT !.count = f.count]
             /\ error' = error
  /\ UNCHANGED <<parentStack, nodes, children, elementStack, state, line, currentNode,
                 currentAttribute, nextId, steps, column, callVars>>

-----------------------------------------------------------------------------
(* BlockStatement (lines 49-70) *)

\* line 55 with a state too many let through
BlockIllegalLax(s) ==
  s # "comment" /\ s # "data" /\ s # "beforeData" /\ s # "attributeName"

\* line 55
BlockIllegal(s) == s # "comment" /\ s # "data" /\ s # "beforeData"

\* lines 50-59, up to the call of Program
BlockStatement(path, hasProgram, hasInverse) ==
  /\ InBody
  /\ LET call == acceptCall(path)
         source == <<"{", "{">> \o sourceForMustache(path) \o <<"}", "}">>
     IN IF state = "comment"
        THEN /\ Store(appendToCommentData(Env, source))
             /\ frames' = Counted(frames)
             /\ steps' = steps + 1
             /\ last' = Did("Block", "return", NullId, <<"appendToCommentData">>,
                            Snapshot, path)
             /\ UNCHANGED <<error, nodes>>
        ELSE IF BlockIllegal(state)
        THEN /\ error' = BlockError
             /\ last' = Did("Block", "throw", NullId, <<>>, Snapshot, path)
             /\ UNCHANGED <<parentStack, nodes, children, elementStack, state, line,
                            currentNode, currentAttribute, frames, nextId, steps>>
        ELSE IF ~call.ok
        THEN /\ error' = call.error
             /\ last' = Did("Block", "throw", NullId, <<"acceptCall">>, Snapshot, path)
             /\ UNCHANGED <<parentStack, nodes, children, elementStack, state, line,
                            currentNode, currentAttribute, frames, nextId, steps>>
        ELSE /\ frames' = Append(Counted(frames),
                                 BlockFrame(hasProgram, hasInverse, Snapshot))
             /\ steps' = steps + 1
             /\ last' = Did("Block", "call", NullId, <<"acceptCall">>, Snapshot, path)
             /\ UNCHANGED <<parentStack, nodes, children, elementStack, state, line,
                            currentNode, currentAttribute, error, nextId>>
  /\ UNCHANGED <<pc, column, callVars>>

\* lines 65-69, after the scopes are built: the Block is appended to the
\* current parent
BlockFinish ==
  /\ pc = "running"
  /\ error = NoError
  /\ Len(frames) > 0
  /\ Top(frames).kind = "Block"
  /\ Top(frames).stage = "append"
  /\ LET f == Top(frames)
         node == Len(nodes) + 1
         e == appendChild(Env, node)
     IN /\ nodes' = Append(nodes, BlockNode(f.program, f.inverse))
        /\ Store(e)
        /\ error' = IF e.ok THEN error ELSE TypeError
        /\ frames' = Pop(frames)
        /\ last' = Did("Block", IF e.ok THEN "return" ELSE "throw", node,
                       <<"appendChild">>, f.entry, NoPath)
  /\ UNCHANGED <<pc, steps, column, callVars>>

-----------------------------------------------------------------------------
(* MustacheStatement (lines 72-120) *)

\* the switch without the state change of line 86
MustachePlacementTagNameKept(s) ==
  CASE s \in {"tagName", "beforeAttributeName"} ->
         [calls |-> <<"appendModifier">>, state |-> s]
    [] s \in {"attributeName", "afterAttributeName"} ->
         [calls |-> <<"beginAttributeValue", "finishAttributeValue", "appendModifier">>,
          state |-> "beforeAttributeName"]
    [] s = "afterAttributeValueQuoted" ->
         [calls |-> <<"appendModifier">>, state |-> "beforeAttributeName"]
    [] s = "beforeAttributeValue" ->
         [calls |-> <<"pushMustache">>, state |-> "attributeValueUnquoted"]
    [] s \in {"attributeValueDoubleQuoted", "attributeValueSingleQuoted",
              "attributeValueUnquoted"} ->
         [calls |-> <<"pushMustache">>, state |-> s]
    [] OTHER ->
         [calls |-> <<"appendChild">>, state |-> s]

\* the switch without the finishAttributeValue of line 94
MustachePlacementAttributeLeftOpen(s) ==
  CASE s = "tagName" ->
         [calls |-> <<"appendModifier">>, state |-> "beforeAttributeName"]
    [] s = "beforeAttributeName" ->
         [calls |-> <<"appendModifier">>, state |-> s]
    [] s \in {"attributeName", "afterAttributeName"} ->
         [calls |-> <<"beginAttributeValue", "appendModifier">>,
          state |-> "beforeAttributeName"]
    [] s = "afterAttributeValueQuoted" ->
         [calls |-> <<"appendModifier">>, state |-> "beforeAttributeName"]
    [] s = "beforeAttributeValue" ->
         [calls |-> <<"pushMustache">>, state |-> "attributeValueUnquoted"]
    [] s \in {"attributeValueDoubleQuoted", "attributeValueSingleQuoted",
              "attributeValueUnquoted"} ->
         [calls |-> <<"pushMustache">>, state |-> s]
    [] OTHER ->
         [calls |-> <<"appendChild">>, state |-> s]

\* the switch with a break after line 106: no fall through to line 110
MustachePlacementNoFallThrough(s) ==
  CASE s = "tagName" ->
         [calls |-> <<"appendModifier">>, state |-> "beforeAttributeName"]
    [] s = "beforeAttributeName" ->
         [calls |-> <<"appendModifier">>, state |-> s]
    [] s \in {"attributeName", "afterAttributeName"} ->
         [calls |-> <<"beginAttributeValue", "finishAttributeValue", "appendModifier">>,
          state |-> "beforeAttributeName"]
    [] s = "afterAttributeValueQuoted" ->
         [calls |-> <<"appendModifier">>, state |-> "beforeAttributeName"]
    [] s = "beforeAttributeValue" ->
         [calls |-> <<>>, state |-> "attributeValueUnquoted"]
    [] s \in {"attributeValueDoubleQuoted", "attributeValueSingleQuoted",
              "attributeValueUnquoted"} ->
         [calls |-> <<"pushMustache">>, state |-> s]
    [] OTHER ->
         [calls |-> <<"appendChild">>, state |-> s]

\* the switch of lines 82-117: the handler calls made, in order, and the
\* tokenizer state left behind
MustachePlacement(s) ==
  CASE s = "tagName" ->
         [calls |-> <<"appendModifier">>, state |-> "beforeAttributeName"]
    [] s = "beforeAttributeName" ->
         [calls |-> <<"appendModifier">>, state |-> s]
    [] s \in {"attributeName", "afterAttributeName"} ->
         [calls |-> <<"beginAttributeValue", "finishAttributeValue", "appendModifier">>,
          state |-> "beforeAttributeName"]
    [] s = "afterAttributeValueQuoted" ->
         [calls |-> <<"appendModifier">>, state |-> "beforeAttributeName"]
    [] s = "beforeAttributeValue" ->
         [calls |-> <<"pushMustache">>, state |-> "attributeValueUnquoted"]
    [] s \in {"attributeValueDoubleQuoted", "attributeValueSingleQuoted",
              "attributeValueUnquoted"} ->
         [calls |-> <<"pushMustache">>, state |-> s]
    [] OTHER ->
         [calls |-> <<"appendChild">>, state |-> s]

\* one handler call of the switch
Perform(e, call, mustache) ==
  CASE call = "appendModifier" -> appendModifier(e, mustache)
    [] call = "beginAttributeValue" -> beginAttributeValue(e, FALSE)
    [] call = "finishAttributeValue" -> finishAttributeValue(e)
    [] call = "pushMustache" -> appendToAttributeValue(e, mustache)
    [] call = "appendChild" -> appendChild(e, mustache)

RECURSIVE PerformAll(_, _, _)
PerformAll(e, calls, mustache) ==
  IF Len(calls) = 0 THEN e
  ELSE PerformAll(Perform(e, Head(calls), mustache), Tail(calls), mustache)

\* lines 72-120 with the call of line 80 made after the switch
MustacheStatementPlacesFirst(path) ==
  /\ InBody
  /\ LET call == acceptCall(path)
         source == <<"{", "{">> \o sourceForMustache(path) \o <<"}", "}">>
         mustache == Len(nodes) + 1
         placement == MustachePlacement(state)
         e == To(PerformAll(Env, placement.calls, mustache), placement.state)
     IN IF state = "comment"
        THEN /\ Store(appendToCommentData(Env, source))
             /\ frames' = Counted(frames)
             /\ steps' = steps + 1
             /\ last' = Did("Mustache", "return", NullId, <<"appendToCommentData">>,
                            Snapshot, path)
             /\ UNCHANGED <<error, nodes>>
        ELSE /\ nodes' = Append(nodes, LeafNode("Mustache"))
             /\ Store(e)
             /\ error' = IF ~e.ok THEN TypeError
                         ELSE IF ~call.ok THEN call.error ELSE error
             /\ frames' = Counted(frames)
             /\ steps' = steps + 1
             /\ last' = Did("Mustache", IF e.ok /\ call.ok THEN "return" ELSE "throw",
                            IF call.ok THEN mustache ELSE NullId,
                            placement.calls \o <<"acceptCall">>, Snapshot, path)
  /\ UNCHANGED <<pc, column, callVars>>

\* lines 72-120 with the call of line 80 made before the test of line 75
MustacheStatementValidatesFirst(path) ==
  /\ InBody
  /\ LET call == acceptCall(path)
         source == <<"{", "{">> \o sourceForMustache(path) \o <<"}", "}">>
         mustache == Len(nodes) + 1
         placement == MustachePlacement(state)
         e == To(PerformAll(Env, placement.calls, mustache), placement.state)
     IN IF ~call.ok
        THEN /\ error' = call.error
             /\ last' = Did("Mustache", "throw", NullId, <<"acceptCall">>, Snapshot, path)
             /\ UNCHANGED <<parentStack, nodes, children, elementStack, state, line,
                            currentNode, currentAttribute, frames, nextId, steps>>
        ELSE IF state = "comment"
        THEN /\ Store(appendToCommentData(Env, source))
             /\ frames' = Counted(frames)
             /\ steps' = steps + 1
             /\ last' = Did("Mustache", "return", NullId, <<"appendToCommentData">>,
                            Snapshot, path)
             /\ UNCHANGED <<error, nodes>>
        ELSE /\ nodes' = Append(nodes, LeafNode("Mustache"))
             /\ Store(e)
             /\ error' = IF e.ok THEN error ELSE TypeError
             /\ frames' = Counted(frames)
             /\ steps' = steps + 1
             /\ last' = Did("Mustache", IF e.ok THEN "return" ELSE "throw", mustache,
                            <<"acceptCall">> \o placement.calls, Snapshot, path)
  /\ UNCHANGED <<pc, column, callVars>>

MustacheStatement(path) ==
  /\ InBody
  /\ LET call == acceptCall(path)
         source == <<"{", "{">> \o sourceForMustache(path) \o <<"}", "}">>
         mustache == Len(nodes) + 1
         placement == MustachePlacement(state)
         e == To(PerformAll(Env, placement.calls, mustache), placement.state)
     IN IF state = "comment"
        THEN /\ Store(appendToCommentData(Env, source))
             /\ frames' = Counted(frames)
             /\ steps' = steps + 1
             /\ last' = Did("Mustache", "return", NullId, <<"appendToCommentData">>,
                            Snapshot, path)
             /\ UNCHANGED <<error, nodes>>
        ELSE IF ~call.ok
        THEN /\ error' = call.error
             /\ last' = Did("Mustache", "throw", NullId, <<"acceptCall">>, Snapshot, path)
             /\ UNCHANGED <<parentStack, nodes, children, elementStack, state, line,
                            currentNode, currentAttribute, frames, nextId, steps>>
        ELSE /\ nodes' = Append(nodes, LeafNode("Mustache"))
             /\ Store(e)
             /\ error' = IF e.ok THEN error ELSE TypeError
             /\ frames' = Counted(frames)
             /\ steps' = steps + 1
             /\ last' = Did("Mustache", IF e.ok THEN "return" ELSE "throw", mustache,
                            <<"acceptCall">> \o placement.calls, Snapshot, path)
  /\ UNCHANGED <<pc, column, callVars>>

-----------------------------------------------------------------------------
(* ContentStatement, CommentStatement, PartialStatement (lines 122-142) *)

\* String.prototype.split with a non-empty separator, element 0: the text
\* before the first occurrence of the separator, the whole text when there
\* is none
SplitFirst(text, separator) ==
  LET n == Len(separator)
      at == {i \in 1..(Len(text) - n + 1) : SubSeq(text, i, i + n - 1) = separator}
  IN IF at = {} THEN text
     ELSE SubSeq(text, 1, (CHOOSE i \in at : \A j \in at : i <= j) - 1)

\* text.split("\n").length, and the same with the pattern /\n/
SplitLength(text) == Cardinality({i \in 1..Len(text) : text[i] = "\n"}) + 1

\* lines 220-233
leadingNewlineDifference(original, value) ==
  IF value = <<>> THEN SplitLength(original) - 1
  ELSE LET difference == SplitFirst(original, value)
       IN SplitLength(difference) - 1

\* lines 123-130: where the tokenizer is put before the text is fed to it.
\* A changeLines of 0 is falsy (lines 126 and 130).
ContentPosition(content) ==
  LET changeLines == IF content.rightStripped
                     THEN leadingNewlineDifference(content.original, content.value)
                     ELSE 0
  IN [line |-> content.line + changeLines,
      column |-> IF changeLines # 0 THEN 0 ELSE content.column]

\* a content span as the Handlebars parser hands it over: its text before
\* whitespace control, the text kept, and where it starts
Span(original, value, rightStripped, startLine, startColumn) ==
  [original |-> original, value |-> value, rightStripped |-> rightStripped,
   line |-> startLine, column |-> startColumn]

\* lines 122-134 for a span that was not stripped: the tokenizer is moved to
\* the start of the span and fed its text.  The documents have one statement
\* on each line.
ContentStatement(value) ==
  /\ InBody
  /\ LET at == ContentPosition(Span(<<>>, <<>>, FALSE, steps + 1, 0))
         e == tokenizePart([Env EXCEPT !.line = at.line], value)
     IN /\ e.ok
        /\ Store(e)
        /\ column' = at.column
        /\ last' = Did("Content", "return", NullId, <<"tokenizePart", "flushData">>,
                       Snapshot, NoPath)
  /\ frames' = Counted(frames)
  /\ steps' = steps + 1
  /\ UNCHANGED <<pc, nodes, error, callVars>>

\* lines 136-138 with the node appended to the current parent, as line 141
\* does for a partial
CommentStatementAppended ==
  /\ InBody
  /\ LET node == Len(nodes) + 1
         e == appendChild(Env, node)
     IN /\ nodes' = Append(nodes, LeafNode("Comment"))
        /\ Store(e)
        /\ error' = IF e.ok THEN error ELSE TypeError
        /\ last' = Did("Comment", IF e.ok THEN "return" ELSE "throw", node,
                       <<"appendChild">>, Snapshot, NoPath)
  /\ frames' = Counted(frames)
  /\ steps' = steps + 1
  /\ UNCHANGED <<pc, column, callVars>>

\* the node is built and returned, and attached nowhere
CommentStatement ==
  /\ InBody
  /\ nodes' = Append(nodes, LeafNode("Comment"))
  /\ frames' = Counted(frames)
  /\ steps' = steps + 1
  /\ last' = Did("Comment", "return", Len(nodes) + 1, <<>>, Snapshot, NoPath)
  /\ UNCHANGED <<pc, parentStack, children, elementStack, state, line, currentNode,
                 currentAttribute, error, nextId, column, callVars>>

\* lines 140-142 with the partial appended in the content states only
PartialStatementInContentOnly ==
  /\ InBody
  /\ LET node == Len(nodes) + 1
         e == IF state \in {"data", "beforeData"} THEN appendChild(Env, node) ELSE Env
     IN /\ nodes' = Append(nodes, LeafNode("Partial"))
        /\ Store(e)
        /\ error' = IF e.ok THEN error ELSE TypeError
        /\ last' = Did("Partial", IF e.ok THEN "return" ELSE "throw", node,
                       <<"appendChild">>, Snapshot, NoPath)
  /\ frames' = Counted(frames)
  /\ steps' = steps + 1
  /\ UNCHANGED <<pc, column, callVars>>

\* lines 140-142
PartialStatement ==
  /\ InBody
  /\ LET node == Len(nodes) + 1
         e == appendChild(Env, node)
     IN /\ nodes' = Append(nodes, LeafNode("Partial"))
        /\ Store(e)
        /\ error' = IF e.ok THEN error ELSE TypeError
        /\ last' = Did("Partial", IF e.ok THEN "return" ELSE "throw", node,
                       <<"appendChild">>, Snapshot, NoPath)
  /\ frames' = Counted(frames)
  /\ steps' = steps + 1
  /\ UNCHANGED <<pc, column, callVars>>

-----------------------------------------------------------------------------
(* The arguments of a call (lines 144-147, 179-197, 203, 207) *)

\* the arguments of the calls of a document: a literal, and a sub-expression
\* on each of the paths
Arguments ==
  {Literal("StringLiteral")} \cup
  {Call("SubExpression", path, <<Literal("NumberLiteral")>>, NoHash) : path \in DocPaths}

\* the visitor that acceptParam picks
VisitorOf(param) ==
  IF param.type \in {"SubExpression", "PathExpression", "Hash"} THEN param.type
  ELSE "Literal"

\* acceptParam with the node that SubExpression builds appended to the
\* current parent, as line 115 does with a mustache
VisitParamAppended(param) ==
  /\ InBody
  /\ state # "comment"
  /\ LET visit == acceptParam(param)
         e == IF visit.ok /\ param.type = "SubExpression"
              THEN appendChild(Env, Len(nodes) + 1) ELSE Env
     IN /\ error' = IF visit.ok THEN error ELSE visit.error
        /\ Store(e)
        /\ last' = Did(VisitorOf(param), IF visit.ok THEN "return" ELSE "throw", NullId,
                       <<>>, Snapshot, IF param.type = "SubExpression" THEN param.path
                                       ELSE NoPath)
  /\ UNCHANGED <<pc, nodes, frames, steps, column, callVars>>

\* acceptParam (lines 203 and 207) on an argument of the call of a mustache
\* or block whose path was accepted: SubExpression (lines 144-147) or a
\* literal visitor (lines 179-197).  The node returned goes into the params
\* of the call.
VisitParam(param) ==
  /\ InBody
  /\ state # "comment"
  /\ LET visit == acceptParam(param)
     IN /\ error' = IF visit.ok THEN error ELSE visit.error
        /\ last' = Did(VisitorOf(param), IF visit.ok THEN "return" ELSE "throw", NullId,
                       <<>>, Snapshot, IF param.type = "SubExpression" THEN param.path
                                       ELSE NoPath)
  /\ UNCHANGED <<pc, parentStack, nodes, children, elementStack, state, line,
                 currentNode, currentAttribute, frames, nextId, steps, column, callVars>>

-----------------------------------------------------------------------------
(* The parse of one document *)

InitVisitor ==
  /\ pc = "start"
  /\ parentStack = <<>>
  /\ nodes = <<>>
  /\ children = NoChildren
  /\ elementStack = <<>>
  /\ state = "beforeData"
  /\ line = 1
  /\ currentNode = NoNode
  /\ currentAttribute = NoAttribute
  /\ frames = <<>>
  /\ error = NoError
  /\ nextId = 1
  /\ steps = 0
  /\ column = 0
  /\ last = Did("none", "return", NullId, <<>>, NoSnapshot, NoPath)

NoResult == [ok |-> FALSE, error |-> NoError, value |-> NoPath]

\* the content statement of a parse that has not visited one on its own
NoSpan == Span(<<>>, <<>>, FALSE, 1, 0)

Init ==
  /\ InitVisitor
  /\ pathArg = NoPath
  /\ pathResult = NoResult
  /\ contentArg = NoSpan
  /\ callArg = NoCall
  /\ callResult = NoCallResult
  /\ callAgain = NoCallResult

Next ==
  \/ \E isEmpty \in BOOLEAN : Program(isEmpty)
  \/ ProgramReturn
  \/ \E path \in DocPaths, hasProgram \in BOOLEAN, hasInverse \in BOOLEAN :
       BlockStatement(path, hasProgram, hasInverse)
  \/ BlockFinish
  \/ \E path \in DocPaths : MustacheStatement(path)
  \/ \E value \in ContentValues : ContentStatement(value)
  \/ CommentStatement
  \/ PartialStatement
  \/ \E param \in Arguments : VisitParam(param)

Spec == Init /\ [][Next]_vars

-----------------------------------------------------------------------------
(* PathExpression on its own, on every raw path *)

InitPath ==
  /\ InitVisitor
  /\ pathArg \in RawPaths
  /\ pathResult = NoResult
  /\ contentArg = NoSpan
  /\ callArg = NoCall
  /\ callResult = NoCallResult
  /\ callAgain = NoCallResult

VisitPath ==
  /\ pathResult = NoResult
  /\ pathResult' = PathExpression(pathArg)
  /\ UNCHANGED <<pathArg, visitorVars, contentArg, callArg, callResult, callAgain>>

NextPath == VisitPath

SpecPath == InitPath /\ [][NextPath]_vars

-----------------------------------------------------------------------------
(* The position of a content statement, on every span *)

TextChars == {"\n", " ", "x"}
Whitespace == {"\n", " "}
Texts == UNION {[1..n -> TextChars] : n \in 0..MaxText}
Columns == 0..MaxColumn

\* the length of the whitespace a text begins with
LeadingRun(text) ==
  Cardinality({k \in 1..Len(text) : \A i \in 1..k : text[i] \in Whitespace})

\* the spans: untouched, or with `rightStripped` set and a run of leading
\* whitespace removed from the text
Spans ==
  UNION {
    {Span(text, text, FALSE, l, c) : l \in Lines, c \in Columns}
    \cup {Span(text, SubSeq(text, k + 1, Len(text)), TRUE, l, c) :
            k \in 1..LeadingRun(text), l \in Lines, c \in Columns}
    : text \in Texts}

InitContent ==
  /\ InitVisitor
  /\ pathArg = NoPath
  /\ pathResult = NoResult
  /\ contentArg \in Spans
  /\ callArg = NoCall
  /\ callResult = NoCallResult
  /\ callAgain = NoCallResult

\* lines 123-130 of ContentStatement, up to the call of tokenizePart
PositionContent ==
  /\ last.op = "none"
  /\ LET at == ContentPosition(contentArg)
     IN /\ line' = at.line
        /\ column' = at.column
  /\ last' = Did("Content", "call", NullId, <<>>, Snapshot, NoPath)
  /\ UNCHANGED <<pc, parentStack, nodes, children, elementStack, state, currentNode,
                 currentAttribute, frames, error, nextId, steps, callVars>>

NextContent == PositionContent

SpecContent == InitContent /\ [][NextContent]_vars

-----------------------------------------------------------------------------
(* acceptCall on its own, on calls with arguments *)

PlainPath == RawPath(<<>>, <<(<<"a">>)>>, <<>>, FALSE, 1)
SlashPath == RawPath(<<>>, <<(<<"a">>), (<<"b">>)>>, <<(<<"/">>)>>, FALSE, 1)
DotSlashPath == RawPath(<<".", "/">>, <<(<<"a">>)>>, <<>>, FALSE, 1)
CallPaths == {PlainPath, SlashPath, DotSlashPath}

\* the arguments: a literal, a path that is accepted, one that is rejected,
\* and a sub-expression with an argument of its own
ParamValues ==
  { Literal("StringLiteral"), PlainPath, DotSlashPath,
    Call("SubExpression", PlainPath, <<Literal("NumberLiteral")>>, NoHash) }

\* the key of the i-th pair: the keys of a hash differ
Key(i) == [j \in 1..i |-> "k"]

ParamLists == UNION {[1..n -> ParamValues] : n \in 0..MaxParams}
Hashes ==
  {NoHash} \cup
  { Hash([i \in 1..Len(values) |-> HashPair(Key(i), values[i])], 1) :
      values \in UNION {[1..n -> ParamValues] : n \in 0..MaxPairs} }

RawCalls ==
  { Call("MustacheStatement", path, params, hash) :
      path \in CallPaths, params \in ParamLists, hash \in Hashes }

InitCall ==
  /\ InitVisitor
  /\ pathArg = NoPath
  /\ pathResult = NoResult
  /\ contentArg = NoSpan
  /\ callArg \in RawCalls
  /\ callResult = NoCallResult
  /\ callAgain = NoCallResult

VisitCall ==
  /\ callResult = NoCallResult
  /\ callResult' = acceptCallNode(callArg)
  /\ UNCHANGED <<visitorVars, pathArg, pathResult, contentArg, callArg, callAgain>>

\* the nodes among the arguments of a call that hbs.sexpr built
Built(call) ==
  {i \in 1..Len(call.params) : call.params[i].type = "Sexpr"}
  \cup {i \in 1..Len(call.hash.pairs) : call.hash.pairs[i].value.type = "Sexpr"}

\* the normalized call is normalized again; a call that holds a node built
\* by hbs.sexpr is left alone
VisitCallAgain ==
  /\ callResult.ok
  /\ callAgain = NoCallResult
  /\ Built(callResult.value) = {}
  /\ callAgain' = acceptCallNode(callResult.value)
  /\ UNCHANGED <<visitorVars, pathArg, pathResult, contentArg, callArg, callResult>>

NextCall == VisitCall \/ VisitCallAgain

SpecCall == InitCall /\ [][NextCall]_vars

-----------------------------------------------------------------------------
(* Properties *)

Contains(text, c) == \E i \in 1..Len(text) : text[i] = c
StartsWith(text, prefix) ==
  /\ Len(text) >= Len(prefix)
  /\ \A i \in 1..Len(prefix) : text[i] = prefix[i]
Occurrences(seq, x) == Cardinality({i \in 1..Len(seq) : seq[i] = x})

ProgramReturned == last.op = "Program" /\ last.outcome = "return"
MustacheReturned == last.op = "Mustache" /\ last.outcome = "return"
BlockBuilt == last.op = "Block" /\ last.outcome = "return" /\ last.node # NullId

\* C1: when a call of Program returns, the parent stack has the depth and the
\* top entry it had when the call was entered.
C1_ParentStackBalanced ==
  ProgramReturned =>
    /\ Len(parentStack) = Len(last.pre.parentStack)
    /\ Current(parentStack, NullId) = Current(last.pre.parentStack, NullId)

\* C2: a Block built in state data or beforeData is a child, exactly once, of
\* the node that was the current parent when BlockStatement was entered, and
\* of no other node; in particular not of its own program or inverse.
C2_BlockAppendedToEnclosingScope ==
  BlockBuilt =>
    LET parent == Current(last.pre.parentStack, NullId)
    IN /\ parent # NullId
       /\ Occurrences(children[parent], last.node) = 1
       /\ \A id \in 1..Len(nodes) :
            id # parent => Occurrences(children[id], last.node) = 0

\* the scopes whose Program call has returned
Closed(id) ==
  /\ nodes[id].type = "Program"
  /\ \A i \in 1..Len(frames) : ~(frames[i].kind = "Program" /\ frames[i].node = id)

\* C3: once the Program call that created a scope has returned, no step of
\* the parse appends a child to that scope.
C3_ClosedScopeImmutable ==
  [][\A id \in 1..Len(nodes) : Closed(id) => children'[id] = children[id]]_vars

\* C4: a Program call on a non-empty scope returns only with the top of the
\* element stack it found at entry, and otherwise fails with the unclosed
\* element error, which names the tag and line of the element left on top.
C4_ElementStackBalanceChecked ==
  LET topNode == Current(last.pre.elementStack, NullElement)
      newTopNode == Current(elementStack, NullElement)
  IN /\ ProgramReturned => newTopNode = topNode
     /\ (last.op = "Program" /\ last.outcome = "throw") =>
          /\ newTopNode # topNode
          /\ error.kind = "UnclosedElement"
          /\ newTopNode # NullElement =>
               (error.tag = newTopNode.tag /\ error.line = newTopNode.line)

\* C5: a BlockStatement entered in a state other than comment, data and
\* beforeData fails with the block error, whatever its path, and has changed
\* nothing: no call was normalized, no node or scope built, no frame entered.
C5_BlockOutsideElementFails ==
  (last.op = "Block" /\ last.pre.state \notin {"comment", "data", "beforeData"}) =>
    /\ last.outcome = "throw"
    /\ error = BlockError
    /\ last.calls = <<>>
    /\ last.node = NullId
    /\ Snapshot = last.pre
    /\ Top(frames).kind = "Program"

C5_Witness ==
  /\ last.op = "Block"
  /\ last.pre.state = "attributeName"
  /\ PathRejection(last.path.original) # "none"
  /\ error = BlockError

PathVisited == pathResult # NoResult

\* C6: PathExpression rejects a text that begins with './' with the
\* current-context error, one that begins with '../' with the parent-context
\* error, any other text that holds both '/' and '.' with the mixed-separator
\* error, and accepts every other text.
C6_PathRejections ==
  PathVisited =>
    LET text == pathArg.original
        dotSlash == StartsWith(text, <<".", "/">>)
        dotDotSlash == StartsWith(text, <<".", ".", "/">>)
        mixed == Contains(text, "/") /\ Contains(text, ".")
    IN /\ dotSlash => (~pathResult.ok /\ pathResult.error.kind = "DotSlashPath")
       /\ dotDotSlash => (~pathResult.ok /\ pathResult.error.kind = "DotDotSlashPath")
       /\ (mixed /\ ~dotSlash /\ ~dotDotSlash) =>
            (~pathResult.ok /\ pathResult.error.kind = "MixedPath")
       /\ (~mixed /\ ~dotSlash /\ ~dotDotSlash) => pathResult.ok

C6_Witness ==
  /\ PathVisited
  /\ StartsWith(pathArg.original, <<".", ".", "/">>)
  /\ Contains(SubSeq(pathArg.original, 4, Len(pathArg.original)), ".")
  /\ pathResult.error.kind = "DotDotSlashPath"

\* C7: for a text with '/' and without '.', PathExpression returns one
\* segment, the input segments joined with '/', and depth 0.
C7_SlashPathJoined ==
  (PathVisited /\ Contains(pathArg.original, "/") /\ ~Contains(pathArg.original, ".")) =>
    /\ pathResult.ok
    /\ pathResult.value.parts = Array(<<Join(pathArg.parts.v, <<"/">>)>>)
    /\ pathResult.value.depth = 0

\* C8: for a text without '/', PathExpression returns the input segments
\* unchanged, depth 0, and the input's text, data flag and location.
C8_PlainPathUnchanged ==
  (PathVisited /\ ~Contains(pathArg.original, "/")) =>
    /\ pathResult.ok
    /\ pathResult.value.parts = pathArg.parts
    /\ pathResult.value.depth = 0
    /\ pathResult.value.original = pathArg.original
    /\ pathResult.value.data = pathArg.data
    /\ pathResult.value.loc = pathArg.loc

\* C9: a mustache that returns from a visit in state tagName,
\* beforeAttributeName or afterAttributeValueQuoted has been added to the
\* modifiers of the open tag and to nothing else, and the tokenizer is in
\* state beforeAttributeName.
C9_TagStateMustacheIsModifier ==
  (MustacheReturned /\ last.pre.state \in {"tagName", "beforeAttributeName",
                                          "afterAttributeValueQuoted"}) =>
    /\ currentNode = [last.pre.currentNode EXCEPT !.modifiers = Append(@, last.node)]
    /\ currentNode.type = "tag"
    /\ currentAttribute = last.pre.currentAttribute
    /\ children = last.pre.children
    /\ parentStack = last.pre.parentStack
    /\ state = "beforeAttributeName"

C9_Witness ==
  /\ MustacheReturned
  /\ last.pre.state = "tagName"
  /\ currentNode.modifiers = <<last.node>>

\* C10: a mustache that returns from a visit in state attributeName or
\* afterAttributeName has begun an unquoted attribute value, finished it, and
\* then been added to the modifiers of the open tag, in this order: the
\* pending attribute is among the tag's attributes with an empty value, no
\* attribute is open, and the tokenizer is in state beforeAttributeName.
C10_AttributeNameMustacheClosesAttribute ==
  (MustacheReturned /\ last.pre.state \in {"attributeName", "afterAttributeName"}) =>
    /\ last.calls = <<"acceptCall", "beginAttributeValue", "finishAttributeValue",
                      "appendModifier">>
    /\ last.pre.currentAttribute.open
    /\ currentNode =
         [last.pre.currentNode EXCEPT
            !.attributes = Append(@, [parts |-> <<>>, isQuoted |-> FALSE]),
            !.modifiers = Append(@, last.node)]
    /\ currentAttribute = NoAttribute
    /\ children = last.pre.children
    /\ state = "beforeAttributeName"

C10_Witness ==
  /\ MustacheReturned
  /\ last.pre.state = "afterAttributeName"
  /\ Len(currentNode.attributes) = 1
  /\ currentNode.modifiers = <<last.node>>

AttributeValueStates ==
  {"beforeAttributeValue", "attributeValueDoubleQuoted", "attributeValueSingleQuoted",
   "attributeValueUnquoted"}

\* C11: a mustache that returns from a visit in state attributeValueDoubleQuoted,
\* attributeValueSingleQuoted or attributeValueUnquoted has been pushed onto
\* the parts of the open attribute and the state is the one it was; visited in
\* state beforeAttributeValue it has been pushed likewise and the state is
\* attributeValueUnquoted.  The modifiers of the tag and the children of
\* every parent are what they were.
C11_AttributeValueMustacheIsPart ==
  (MustacheReturned /\ last.pre.state \in AttributeValueStates) =>
    /\ last.pre.currentAttribute.open
    /\ currentAttribute = [last.pre.currentAttribute EXCEPT !.parts = Append(@, last.node)]
    /\ currentNode = last.pre.currentNode
    /\ children = last.pre.children
    /\ parentStack = last.pre.parentStack
    /\ state = IF last.pre.state = "beforeAttributeValue" THEN "attributeValueUnquoted"
               ELSE last.pre.state

C11_Witness ==
  /\ MustacheReturned
  /\ last.pre.state = "beforeAttributeValue"
  /\ state = "attributeValueUnquoted"
  /\ currentAttribute.parts = <<last.node>>

ContentPositioned == last.op = "Content" /\ last.outcome = "call"

\* C12: once a content statement is visited and before its text is tokenized,
\* for a span whose leading whitespace was stripped the tokenizer line is the
\* start line plus the number of newlines in the stripped leading portion (all
\* the newlines of the original text when the retained text is empty) and the
\* column is 0 when that number is positive and the start column otherwise;
\* for a span that was not stripped they are the start line and column.
C12_ContentPositionCountsStrippedNewlines ==
  ContentPositioned =>
    LET stripped == SubSeq(contentArg.original, 1,
                           Len(contentArg.original) - Len(contentArg.value))
        newlines == Occurrences(stripped, "\n")
    IN IF contentArg.rightStripped
       THEN /\ line = contentArg.line + newlines
            /\ column = IF newlines > 0 THEN 0 ELSE contentArg.column
       ELSE /\ line = contentArg.line
            /\ column = contentArg.column

CallVisitedAgain == callAgain # NoCallResult

\* C13: normalizing a call that acceptCall has normalized yields that call
\* again, and so does normalizing a normalized path: for a dotted path, a
\* slash-only path and a path of one segment.
C13_CallNormalizationIdempotent ==
  CallVisitedAgain => callAgain = callResult

CallVisited == callResult # NoCallResult
IsLiteral(node) ==
  node.type \in {"StringLiteral", "BooleanLiteral", "NumberLiteral", "UndefinedLiteral",
                 "NullLiteral"}

\* C15: in the call that acceptCall returns, the params are as many as those
\* of the input and the i-th is the visited i-th input param (a literal is
\* the literal itself); the hash has the pairs of the input hash, same keys
\* in the same order, each value the visited input value; a call without a
\* hash gets a hash without pairs whose location is null.
C15_CallArgumentsPreserved ==
  (CallVisited /\ callResult.ok) =>
    LET in == callArg
        out == callResult.value
    IN /\ Len(out.params) = Len(in.params)
       /\ \A i \in 1..Len(in.params) :
            /\ out.params[i] = acceptParam(in.params[i]).value
            /\ IsLiteral(in.params[i]) => out.params[i] = in.params[i]
       /\ out.hash.type = "Hash"
       /\ IF in.hash = NoHash
          THEN out.hash.pairs = <<>> /\ out.hash.loc = NullLoc
          ELSE /\ Len(out.hash.pairs) = Len(in.hash.pairs)
               /\ out.hash.loc = in.hash.loc
               /\ \A i \in 1..Len(in.hash.pairs) :
                    /\ out.hash.pairs[i].key = in.hash.pairs[i].key
                    /\ out.hash.pairs[i].value = acceptParam(in.hash.pairs[i].value).value

C15_Witness ==
  /\ CallVisited /\ callResult.ok
  /\ Len(callArg.params) = 2
  /\ IsLiteral(callArg.params[1])
  /\ callArg.params[2].type = "SubExpression"
  /\ callResult.value.params[2].type = "Sexpr"
  /\ Len(callResult.value.hash.pairs) = 2
  /\ callResult.value.hash.pairs[2].key = Key(2)

VisitedInComment == last.op \in {"Block", "Mustache"} /\ last.pre.state = "comment"

\* C14: a block or a mustache visited in state comment returns without a
\* node and without an error, whatever its path; the comment under
\* construction has gained '{{', the source text of the statement and '}}',
\* and nothing else has changed: the parent stack, the children of every
\* parent, the attribute, the element stack and the nodes built are what
\* they were, the state is still comment, and no scope of the block is being
\* traversed.
C14_CommentStateAbsorbsStatement ==
  VisitedInComment =>
    /\ last.outcome = "return"
    /\ last.node = NullId
    /\ error = NoError
    /\ last.calls = <<"appendToCommentData">>
    /\ currentNode =
         [last.pre.currentNode EXCEPT
            !.chars = @ \o <<"{", "{">> \o last.path.original \o <<"}", "}">>]
    /\ currentNode.type = "comment"
    /\ currentNode.modifiers = last.pre.currentNode.modifiers
    /\ state = "comment"
    /\ parentStack = last.pre.parentStack
    /\ children = last.pre.children
    /\ currentAttribute = last.pre.currentAttribute
    /\ elementStack = last.pre.elementStack
    /\ Len(nodes) = last.pre.built
    /\ Top(frames).kind = "Program"

C14_Witness ==
  /\ VisitedInComment
  /\ last.op = "Mustache"
  /\ PathRejection(last.path.original) # "none"
  /\ Len(currentNode.chars) > 0

Parsed == pc = "done" /\ error = NoError
NodesOf(types) == {i \in 1..Len(nodes) : nodes[i].type \in types}

\* every statement visited built a node: the document has no content
\* statement, and so no markup and no statement inside a markup comment
OnlyCalls == Cardinality(NodesOf({"Mustache", "Partial", "Comment", "Block"})) = steps

PlacementStates ==
  {"comment", "tagName", "beforeAttributeName", "attributeName", "afterAttributeName",
   "afterAttributeValueQuoted", "beforeAttributeValue", "attributeValueDoubleQuoted",
   "attributeValueSingleQuoted", "attributeValueUnquoted"}

\* C17: a mustache that returns from a visit in a state other than comment
\* and the nine tag and attribute states (data and beforeData above all) has
\* been appended to the children of the scope whose body is being traversed;
\* no other parent has gained a child, the state, the tag and the attribute
\* are what they were, and the node built is returned.
C17_ContentMustacheIsChildOfTraversedScope ==
  (MustacheReturned /\ last.pre.state \notin PlacementStates) =>
    /\ last.node # NullId
    /\ nodes[last.node].type = "Mustache"
    /\ children = [last.pre.children EXCEPT ![Top(frames).node] = Append(@, last.node)]
    /\ state = last.pre.state
    /\ currentNode = last.pre.currentNode
    /\ currentAttribute = last.pre.currentAttribute

PartialReturned == last.op = "Partial" /\ last.outcome = "return"

\* C18: a partial that returns from its visit has been appended to the
\* children of the current parent, whatever the tokenizer state; the
\* tokenizer state and the parent stack are what they were, and so are the
\* tag and the attribute under construction.
C18_PartialIsChildInEveryState ==
  PartialReturned =>
    /\ nodes[last.node].type = "Partial"
    /\ children = [last.pre.children EXCEPT
                     ![Current(last.pre.parentStack, NullId)] = Append(@, last.node)]
    /\ state = last.pre.state
    /\ parentStack = last.pre.parentStack
    /\ currentNode = last.pre.currentNode
    /\ currentAttribute = last.pre.currentAttribute

C18_Witness ==
  /\ PartialReturned
  /\ state = "attributeValueDoubleQuoted"
  /\ Len(children[Current(parentStack, NullId)]) = 1

MustacheRejected ==
  /\ last.op = "Mustache"
  /\ last.pre.state # "comment"
  /\ PathRejection(last.path.original) # "none"

\* C19: a mustache visited in a state other than comment whose path is
\* rejected fails with the rejection of its path, and nothing has been
\* placed: the state, the tag with its modifiers, the attribute with its
\* parts (no value begun or finished), the children of every parent, the
\* stacks and the nodes built are what they were, and no handler was called.
C19_RejectedMustachePlacesNothing ==
  MustacheRejected =>
    /\ last.outcome = "throw"
    /\ last.node = NullId
    /\ error = PathError(PathRejection(last.path.original), last.path)
    /\ last.calls = <<"acceptCall">>
    /\ Snapshot = last.pre

C19_Witness ==
  /\ MustacheRejected
  /\ state = "attributeName"
  /\ currentAttribute.open
  /\ error.kind = "DotSlashPath"

VisitedWithoutPlacement == last.op \in {"SubExpression", "Comment", "Literal"}

\* C20: after the visit of a sub-expression, of a source comment or of a
\* literal, whether it returned or failed, the parent stack, the children of
\* every parent, the tag with its modifiers, the attribute with its parts,
\* the element stack and the tokenizer state are what they were; the node
\* that the visit built is the child of no parent.
C20_ArgumentsAndCommentsPlaceNothing ==
  VisitedWithoutPlacement =>
    /\ parentStack = last.pre.parentStack
    /\ children = last.pre.children
    /\ currentNode = last.pre.currentNode
    /\ currentAttribute = last.pre.currentAttribute
    /\ elementStack = last.pre.elementStack
    /\ state = last.pre.state
    /\ last.op = "Comment" =>
         /\ nodes[last.node].type = "Comment"
         /\ \A parent \in DOMAIN children :
              \A i \in 1..Len(children[parent]) : children[parent][i] # last.node
    /\ last.op # "Comment" => Len(nodes) = last.pre.built

C20_Witness ==
  /\ VisitedWithoutPlacement
  /\ last.op = "SubExpression"
  /\ last.outcome = "return"
  /\ state = "data"
  /\ Len(parentStack) = 2

=============================================================================
